---- MODULE Spec2Model ----
(***************************************************************************)
(* The attitude state machine of a Light (src/src/lib.rs): construction    *)
(* from a LightAttitudeSpec, the combined eye-relative update and the      *)
(* world-absolute position update, with the cglinalg vector, quaternion    *)
(* and matrix operations the code calls.                                   *)
(*                                                                         *)
(* Scalars.  The scalar type S is modelled exactly, as the field Q(sqrt 2):*)
(* a scalar is <<a, b, d>> with integers a, b and d > 0 in lowest terms,   *)
(* standing for (a + b*sqrt(2)) / d.  This field holds the sines and       *)
(* cosines of all half angles of quarter turns, so a 90 degree yaw is      *)
(* computed, not approximated.  Rounding of IEEE floats is not modelled.   *)
(***************************************************************************)
EXTENDS Integers, Sequences, FiniteSets, TLC

VARIABLES
    attitude,   \* the LightAttitude of the Light: a record of its eight fields
    spec,       \* the LightAttitudeSpec the Light was built from
    lastOp,     \* the last call made on the Light, with its argument
    pre,        \* the LightAttitude as it was when the last call started
    calls,      \* the number of mutator calls made
    oriented,   \* whether update_orientation_eye has assigned the basis
    panicked    \* whether an unwrap of an inversion result has panicked

vars == <<attitude, spec, lastOp, pre, calls, oriented, panicked>>

(***************************************************************************)
(* Bound: the number of mutator calls made on one Light.                   *)
(***************************************************************************)
MaxCalls == 4

(***************************************************************************)
(* Scalar arithmetic in Q(sqrt 2)                                          *)
(***************************************************************************)
Abs(n) == IF n < 0 THEN -n ELSE n

RECURSIVE GCD(_, _)
GCD(m, n) == IF n = 0 THEN m ELSE GCD(n, m % n)

\* (a + b*sqrt 2) / d with the common factor g taken out.
Reduce(a, b, d, g) == <<a \div g, b \div g, d \div g>>

Normalize(a, b, d) == Reduce(a, b, d, GCD(GCD(Abs(a), Abs(b)), d))

Zero == <<0, 0, 1>>
One == <<1, 0, 1>>
Two == <<2, 0, 1>>
Half == <<1, 0, 2>>
Rt2Half == <<0, 1, 2>>

Num(n) == <<n, 0, 1>>

Neg(x) == <<-x[1], -x[2], x[3]>>

\* x + y over the least common denominator, g the gcd of the denominators.
AddOver(x, y, g) ==
    Normalize(x[1] * (y[3] \div g) + y[1] * (x[3] \div g),
              x[2] * (y[3] \div g) + y[2] * (x[3] \div g),
              x[3] * (y[3] \div g))

Add(x, y) ==
    IF y = Zero THEN x
    ELSE IF x = Zero THEN y
    ELSE AddOver(x, y, GCD(x[3], y[3]))

Sub(x, y) == Add(x, Neg(y))

Mul(x, y) ==
    IF x = Zero \/ y = Zero THEN Zero
    ELSE IF x = One THEN y
    ELSE IF y = One THEN x
    ELSE Normalize(x[1] * y[1] + 2 * x[2] * y[2],
                   x[1] * y[2] + x[2] * y[1],
                   x[3] * y[3])

\* 1 / x for x # 0: d * (a - b*sqrt 2) / (a^2 - 2 b^2), written with a
\* positive denominator; a^2 - 2 b^2 # 0 as sqrt 2 is irrational.
RecipOver(x, n) ==
    Normalize((IF n > 0 THEN 1 ELSE -1) * x[3] * x[1],
              (IF n > 0 THEN -1 ELSE 1) * x[3] * x[2],
              Abs(n))

Recip(x) == RecipOver(x, x[1] * x[1] - 2 * x[2] * x[2])

\* The integer square root of n when n is a perfect square, else -1.
RECURSIVE IRoot(_, _)
IRoot(n, r) == IF r * r = n THEN r ELSE IF r * r > n THEN -1 ELSE IRoot(n, r + 1)

\* x is the square of a rational number.
IsRationalSquare(x) == x[2] = 0 /\ x[1] >= 0 /\ IRoot(x[1], 0) >= 0 /\ IRoot(x[3], 0) >= 0

\* Whether the square root of a scalar x is again a scalar of the modelled
\* field that this module computes: x is the square of a rational number, or
\* twice such a square.
HasSqrt(x) == IsRationalSquare(x) \/ IsRationalSquare(Mul(x, Half))

RationalRoot(x) == <<IRoot(x[1], 0), 0, IRoot(x[3], 0)>>

Sqrt(x) ==
    IF IsRationalSquare(x)
    THEN RationalRoot(x)
    ELSE Mul(<<0, 1, 1>>, RationalRoot(Mul(x, Half)))

\* a + b + c
Sum3(a, b, c) == Add(Add(a, b), c)

\* a + b + c + d
Sum4(a, b, c, d) == Add(Sum3(a, b, c), d)

(***************************************************************************)
(* Vector3 and Vector4: tuples of scalars                                  *)
(***************************************************************************)
Vec3(x, y, z) == <<Num(x), Num(y), Num(z)>>

V3Zero == <<Zero, Zero, Zero>>

V3Neg(v) == [i \in 1..3 |-> Neg(v[i])]

V3Add(u, v) == [i \in 1..3 |-> Add(u[i], v[i])]

V3Scale(v, s) == [i \in 1..3 |-> Mul(v[i], s)]

Dot3(u, v) == Sum3(Mul(u[1], v[1]), Mul(u[2], v[2]), Mul(u[3], v[3]))

Cross3(u, v) ==
    << Sub(Mul(u[2], v[3]), Mul(u[3], v[2])),
       Sub(Mul(u[3], v[1]), Mul(u[1], v[3])),
       Sub(Mul(u[1], v[2]), Mul(u[2], v[1])) >>

NormSquared3(v) == Dot3(v, v)

\* Vector3::to_homogeneous: a direction, w = 0.
to_homogeneous(v) == <<v[1], v[2], v[3], Zero>>

\* Vector4::contract: drop w.
contract(v) == <<v[1], v[2], v[3]>>

\* Unit::from_value: v / |v|.
UnitFromValue(v) == V3Scale(v, Recip(Sqrt(NormSquared3(v))))

(***************************************************************************)
(* Angles: an angle is a whole number of quarter turns (90 degrees).       *)
(***************************************************************************)
CosHalf(k) ==
    CASE k % 8 = 0 -> One
      [] k % 8 \in {1, 7} -> Rt2Half
      [] k % 8 \in {2, 6} -> Zero
      [] k % 8 \in {3, 5} -> Neg(Rt2Half)
      [] k % 8 = 4 -> Neg(One)

SinHalf(k) ==
    CASE k % 8 \in {0, 4} -> Zero
      [] k % 8 \in {1, 3} -> Rt2Half
      [] k % 8 = 2 -> One
      [] k % 8 \in {5, 7} -> Neg(Rt2Half)
      [] k % 8 = 6 -> Neg(One)

(***************************************************************************)
(* Quaternion: <<s, x, y, z>>, scalar part first.                          *)
(***************************************************************************)
QuatFromParts(s, v) == <<s, v[1], v[2], v[3]>>

QuatV(q) == <<q[2], q[3], q[4]>>

\* Quaternion::from_axis_angle: (cos(angle/2), sin(angle/2) * axis).
QuatFromAxisAngle(u, k) == QuatFromParts(CosHalf(k), V3Scale(u, SinHalf(k)))

\* The Hamilton product p * q.
QuatMul(p, q) ==
    << Sum4(Mul(p[1], q[1]), Neg(Mul(p[2], q[2])), Neg(Mul(p[3], q[3])), Neg(Mul(p[4], q[4]))),
       Sum4(Mul(p[1], q[2]), Mul(p[2], q[1]), Mul(p[3], q[4]), Neg(Mul(p[4], q[3]))),
       Sum4(Mul(p[1], q[3]), Mul(p[3], q[1]), Mul(p[4], q[2]), Neg(Mul(p[2], q[4]))),
       Sum4(Mul(p[1], q[4]), Mul(p[4], q[1]), Mul(p[2], q[3]), Neg(Mul(p[3], q[2]))) >>

(***************************************************************************)
(* Matrix4x4: column major, m[c][r] is the entry of column c and row r.    *)
(***************************************************************************)
\* Matrix4x4::from_affine_translation
FromAffineTranslation(v) ==
    << <<One, Zero, Zero, Zero>>, <<Zero, One, Zero, Zero>>,
       <<Zero, Zero, One, Zero>>, <<v[1], v[2], v[3], One>> >>

\* 2 * a * b
Twice(a, b) == Mul(Two, Mul(a, b))

\* Matrix4x4::from(&Quaternion) on the components: the quaternion is not
\* normalised.
MatrixFromParts(s, x, y, z) ==
    << <<Sum3(One, Neg(Twice(y, y)), Neg(Twice(z, z))),
         Add(Twice(x, y), Twice(s, z)),
         Sub(Twice(x, z), Twice(s, y)),
         Zero>>,
       <<Sub(Twice(x, y), Twice(s, z)),
         Sum3(One, Neg(Twice(x, x)), Neg(Twice(z, z))),
         Add(Twice(y, z), Twice(s, x)),
         Zero>>,
       <<Add(Twice(x, z), Twice(s, y)),
         Sub(Twice(y, z), Twice(s, x)),
         Sum3(One, Neg(Twice(x, x)), Neg(Twice(y, y))),
         Zero>>,
       <<Zero, Zero, Zero, One>> >>

MatrixFromQuat(q) == MatrixFromParts(q[1], q[2], q[3], q[4])

\* Matrix * Vector4
MatVec(m, v) ==
    [r \in 1..4 |->
        Sum4(Mul(m[1][r], v[1]), Mul(m[2][r], v[2]), Mul(m[3][r], v[3]), Mul(m[4][r], v[4]))]

\* Matrix * Matrix
MatMul(m, n) == [c \in 1..4 |-> MatVec(m, n[c])]

\* The indices 1..4 without i, in order.
Others(i) == CASE i = 1 -> <<2, 3, 4>> [] i = 2 -> <<1, 3, 4>>
               [] i = 3 -> <<1, 2, 4>> [] i = 4 -> <<1, 2, 3>>

Det2(a, b, c, d) == Sub(Mul(a, d), Mul(b, c))

\* The determinant of the 3x3 matrix of the columns cs and rows rs of m.
Det3(m, cs, rs) ==
    Sum3(Mul(m[cs[1]][rs[1]],
             Det2(m[cs[2]][rs[2]], m[cs[3]][rs[2]], m[cs[2]][rs[3]], m[cs[3]][rs[3]])),
         Neg(Mul(m[cs[2]][rs[1]],
                 Det2(m[cs[1]][rs[2]], m[cs[3]][rs[2]], m[cs[1]][rs[3]], m[cs[3]][rs[3]]))),
         Mul(m[cs[3]][rs[1]],
             Det2(m[cs[1]][rs[2]], m[cs[2]][rs[2]], m[cs[1]][rs[3]], m[cs[2]][rs[3]])))

\* The determinant of m without column c and row r, with the sign of (c, r).
Cofactor(m, c, r) ==
    Mul(IF (c + r) % 2 = 0 THEN One ELSE Neg(One), Det3(m, Others(c), Others(r)))

\* The sum of the four scalars f[1], ..., f[4].
SumOf(f) == Sum4(f[1], f[2], f[3], f[4])

\* Matrix4x4::determinant, expanded along the first column.
Determinant(m) == SumOf([r \in 1..4 |-> Mul(m[1][r], Cofactor(m, 1, r))])

\* Matrix4x4::inverse returns None for a singular matrix.
IsInvertible(m) == Determinant(m) # Zero

\* The adjugate of m times the scalar k.
ScaledAdjugate(m, k) == [c \in 1..4 |-> [r \in 1..4 |-> Mul(Cofactor(m, r, c), k)]]

\* Matrix4x4::inverse, the Some case: the adjugate over the determinant.
Inverse(m) == ScaledAdjugate(m, Recip(Determinant(m)))

(***************************************************************************)
(* Inputs.  A DeltaAttitude is [delta_position, roll, yaw, pitch], the     *)
(* angles in quarter turns.  A LightAttitudeSpec is [position, forward,    *)
(* right, up, axis].  The illumination model of a Light is a parameter bag *)
(* no mutator reads or writes; it is left out.                             *)
(***************************************************************************)
DeltaAttitude(dp, roll, yaw, pitch) ==
    [delta_position |-> dp, roll |-> roll, yaw |-> yaw, pitch |-> pitch]

\* DeltaAttitude::zero
DeltaZero == DeltaAttitude(V3Zero, 0, 0, 0)

\* One step back along z with a quarter turn of yaw.
DeltaYaw90 == DeltaAttitude(Vec3(0, 0, -1), 0, 1, 0)

\* All three angles non-zero.
DeltaMixed == DeltaAttitude(Vec3(1, 2, 0), 2, 1, 1)

DeltaPitch == DeltaAttitude(Vec3(0, 1, 1), 0, 0, -1)

Deltas == {DeltaZero, DeltaYaw90, DeltaMixed, DeltaPitch}

WorldPositions == {Vec3(0, 0, 0), Vec3(3, -1, 2)}

LightAttitudeSpec(position, forward, right, up, axis) ==
    [position |-> position, forward |-> forward, right |-> right,
     up |-> up, axis |-> axis]

ForwardEye == Vec3(0, 0, -1)
RightEye == Vec3(1, 0, 0)
UpEye == Vec3(0, 1, 0)

\* The canonical frame at the origin, rotation axis up.
SpecCanonical == LightAttitudeSpec(V3Zero, ForwardEye, RightEye, UpEye, Vec3(0, 1, 0))

\* Another orthonormal frame, away from the origin, rotation axis z.
SpecTurned ==
    LightAttitudeSpec(Vec3(1, 0, 2), Vec3(0, 0, -1), Vec3(-1, 0, 0), Vec3(0, -1, 0),
                      Vec3(0, 0, 1))

\* The canonical frame with a rotation axis of length 3.
SpecLongAxis == LightAttitudeSpec(V3Zero, ForwardEye, RightEye, UpEye, Vec3(0, 3, 0))

\* The canonical frame with the rotation axis (1/2, 1/2, 0).
SpecHalfAxis ==
    LightAttitudeSpec(V3Zero, ForwardEye, RightEye, UpEye, <<Half, Half, Zero>>)

AttitudeSpecs == {SpecCanonical, SpecTurned, SpecLongAxis, SpecHalfAxis}

(***************************************************************************)
(* LightAttitude: a record of the eight fields of the struct.             *)
(***************************************************************************)
\* The record from_spec builds, given the quaternion and the two matrices.
FromSpecParts(sp, axis, translation_matrix, rotation_matrix) ==
    [position |-> sp.position,
     forward |-> to_homogeneous(sp.forward),
     right |-> to_homogeneous(sp.right),
     up |-> to_homogeneous(sp.up),
     axis |-> axis,
     translation_matrix |-> translation_matrix,
     rotation_matrix |-> rotation_matrix,
     view_matrix |-> MatMul(rotation_matrix, translation_matrix)]

\* from_spec seeding the quaternion with real part 1.
from_spec_RealOne(sp) ==
    FromSpecParts(sp, QuatFromParts(One, sp.axis),
                  FromAffineTranslation(V3Neg(sp.position)),
                  MatrixFromQuat(QuatFromParts(One, sp.axis)))

from_spec(sp) ==
    FromSpecParts(sp, QuatFromParts(Zero, sp.axis),
                  FromAffineTranslation(V3Neg(sp.position)),
                  MatrixFromQuat(QuatFromParts(Zero, sp.axis)))

\* The three rotations of update_orientation_eye, each about a basis vector
\* of the attitude a as it is when the update starts.
QYaw(a, d) == QuatFromAxisAngle(UnitFromValue(contract(a.up)), d.yaw)
QPitch(a, d) == QuatFromAxisAngle(UnitFromValue(contract(a.right)), d.pitch)
QRoll(a, d) == QuatFromAxisAngle(UnitFromValue(contract(a.forward)), d.roll)

\* The three rotations applied in the order roll, pitch, yaw.
RotatedAxis_RollFirst(a, d) ==
    QuatMul(QYaw(a, d), QuatMul(QPitch(a, d), QuatMul(QRoll(a, d), a.axis)))

\* self.axis after the three left multiplications.
RotatedAxis(a, d) ==
    QuatMul(QRoll(a, d), QuatMul(QPitch(a, d), QuatMul(QYaw(a, d), a.axis)))

\* The attitude a with the axis and the basis derived from it through
\* rotation_matrix_inv, the forward vector being the image of fwd.
WithBasis(a, axis, rotation_matrix_inv, fwd) ==
    [a EXCEPT !.axis = axis,
              !.forward = MatVec(rotation_matrix_inv, to_homogeneous(fwd)),
              !.right = MatVec(rotation_matrix_inv, to_homogeneous(RightEye)),
              !.up = MatVec(rotation_matrix_inv, to_homogeneous(UpEye))]

\* The forward vector taken as the image of +z instead of -z.
OrientationBasis_ForwardPlusZ(a, d) ==
    WithBasis(a, RotatedAxis(a, d), MatrixFromQuat(RotatedAxis(a, d)), Vec3(0, 0, 1))

\* update_orientation_eye up to the inversion: axis, forward, right, up.
OrientationBasis(a, d) ==
    WithBasis(a, RotatedAxis(a, d), MatrixFromQuat(RotatedAxis(a, d)), ForwardEye)

\* Whether rotation_matrix_inv.inverse() is None, so that unwrap panics.
OrientationPanics(a, d) == ~IsInvertible(MatrixFromQuat(RotatedAxis(a, d)))

\* The attitude b with rotation_matrix the inverse of the matrix of b.axis.
WithRotation(b) == [b EXCEPT !.rotation_matrix = Inverse(MatrixFromQuat(b.axis))]

update_orientation_eye(a, d) == WithRotation(OrientationBasis(a, d))

\* self.position after the three displacements of update_position_eye.
MovedPosition(a, d) ==
    V3Add(V3Add(V3Add(a.position,
                      V3Scale(contract(a.forward), Neg(d.delta_position[3]))),
                V3Scale(contract(a.up), d.delta_position[2])),
          V3Scale(contract(a.right), d.delta_position[1]))

\* Whether translation_inv.inverse() is None.
TranslationPanics(position) == ~IsInvertible(FromAffineTranslation(position))

\* The attitude a at the given position, translation_matrix the inverse of
\* the translation to it.
WithPosition(a, position) ==
    [a EXCEPT !.position = position,
              !.translation_matrix = Inverse(FromAffineTranslation(position))]

update_position_eye(a, d) == WithPosition(a, MovedPosition(a, d))

\* self.view_matrix = self.rotation_matrix * self.translation_matrix
WithView(b) ==
    [b EXCEPT !.view_matrix = MatMul(b.rotation_matrix, b.translation_matrix)]

\* The new position taken as a displacement of the old one.
update_position_world_Relative(a, new_position) ==
    WithView(WithPosition(a, V3Add(a.position, new_position)))

update_position_world(a, new_position) == WithView(WithPosition(a, new_position))

\* The combined update without the final view_matrix assignment.
update_NoViewRefresh(a, d) == update_position_eye(update_orientation_eye(a, d), d)

\* The combined update with the position step before the orientation step.
update_PositionFirst(a, d) ==
    WithView(update_orientation_eye(update_position_eye(a, d), d))

update(a, d) == WithView(update_position_eye(update_orientation_eye(a, d), d))

\* The attitude b moved by d without the translation_matrix assignment.
MovedOnly(b, d) == [b EXCEPT !.position = MovedPosition(b, d)]

\* The state a panicking update leaves behind: the assignments made before
\* the unwrap that failed.
PanickedUpdate(a, d) ==
    IF OrientationPanics(a, d)
    THEN OrientationBasis(a, d)
    ELSE MovedOnly(update_orientation_eye(a, d), d)

UpdatePanics(a, d) ==
    \/ OrientationPanics(a, d)
    \/ TranslationPanics(MovedPosition(OrientationBasis(a, d), d))

\* The lengths Unit::from_value divides by are scalars of the modelled
\* field, and not zero.
Representable(a) ==
    \A v \in {a.forward, a.right, a.up} :
        /\ HasSqrt(NormSquared3(contract(v)))
        /\ NormSquared3(contract(v)) # Zero

(***************************************************************************)
(* Light                                                                   *)
(***************************************************************************)
NoDelta == DeltaZero
NoPosition == V3Zero

Op(name, d, p) == [op |-> name, delta |-> d, position |-> p]

\* Light::new
Init ==
    /\ spec \in AttitudeSpecs
    /\ attitude = from_spec(spec)
    /\ pre = attitude
    /\ lastOp = Op("new", NoDelta, NoPosition)
    /\ calls = 0
    /\ oriented = FALSE
    /\ panicked = FALSE

Light_update_attitude_eye(d) ==
    /\ ~panicked
    /\ calls < MaxCalls
    /\ Representable(attitude)
    /\ IF UpdatePanics(attitude, d)
       THEN /\ attitude' = PanickedUpdate(attitude, d)
            /\ panicked' = TRUE
       ELSE /\ attitude' = update(attitude, d)
            /\ panicked' = FALSE
    /\ pre' = attitude
    /\ lastOp' = Op("update_attitude_eye", d, NoPosition)
    /\ calls' = calls + 1
    /\ oriented' = TRUE
    /\ UNCHANGED spec

Light_update_position_world(p) ==
    /\ ~panicked
    /\ calls < MaxCalls
    /\ IF TranslationPanics(p)
       THEN /\ attitude' = [attitude EXCEPT !.position = p]
            /\ panicked' = TRUE
       ELSE /\ attitude' = update_position_world(attitude, p)
            /\ panicked' = FALSE
    /\ pre' = attitude
    /\ lastOp' = Op("update_position_world", NoDelta, p)
    /\ calls' = calls + 1
    /\ UNCHANGED <<spec, oriented>>

Next ==
    \/ \E d \in Deltas : Light_update_attitude_eye(d)
    \/ \E p \in WorldPositions : Light_update_position_world(p)

Spec == Init /\ [][Next]_vars

(***************************************************************************)
(* Properties                                                              *)
(***************************************************************************)
Updated == lastOp.op = "update_attitude_eye" /\ ~panicked
Moved == lastOp.op = "update_position_world" /\ ~panicked

UnitAxis(sp) == NormSquared3(sp.axis) = One

IsUnit(v) == NormSquared3(contract(v)) = One
Orthogonal(u, v) == Dot3(contract(u), contract(v)) = Zero

\* C1: after Light::new and after every completed mutator call, view_matrix
\* equals rotation_matrix * translation_matrix of the same state.
C1_ViewMatrixConsistent ==
    ~panicked =>
        attitude.view_matrix =
            MatMul(attitude.rotation_matrix, attitude.translation_matrix)

C1_Witness ==
    /\ Updated
    /\ calls >= 2
    /\ attitude.rotation_matrix # pre.rotation_matrix
    /\ attitude.translation_matrix # pre.translation_matrix
    /\ attitude.view_matrix =
           MatMul(attitude.rotation_matrix, attitude.translation_matrix)

\* C2 as claimed: a completed update_attitude_eye(DeltaAttitude::zero())
\* leaves position, forward, right, up and view_matrix as they were, in
\* every reachable state, the one right after Light::new included.
C2_ZeroDeltaNoOp ==
    (Updated /\ lastOp.delta = DeltaZero) =>
        /\ attitude.position = pre.position
        /\ attitude.forward = pre.forward
        /\ attitude.right = pre.right
        /\ attitude.up = pre.up
        /\ attitude.view_matrix = pre.view_matrix

\* C3 as claimed: for a spec with an orthonormal basis and any axis, after
\* every completed call forward, right and up are unit vectors, pairwise
\* orthogonal, with w = 0.
C3_Orthonormal ==
    ~panicked =>
        /\ IsUnit(attitude.forward) /\ IsUnit(attitude.right) /\ IsUnit(attitude.up)
        /\ Orthogonal(attitude.forward, attitude.right)
        /\ Orthogonal(attitude.forward, attitude.up)
        /\ Orthogonal(attitude.right, attitude.up)
        /\ attitude.forward[4] = Zero
        /\ attitude.right[4] = Zero
        /\ attitude.up[4] = Zero

\* C4 as claimed: after a sequence of updates, forward equals right x up.
C4_ForwardIsRightCrossUp ==
    (oriented /\ ~panicked /\ UnitAxis(spec)) =>
        contract(attitude.forward) =
            Cross3(contract(attitude.right), contract(attitude.up))

\* C4 as amended: for a spec with a unit axis, once an update_attitude_eye has
\* completed, forward equals up x right, the negation of right x up, after
\* every completed call.
C4_ForwardIsUpCrossRight ==
    (oriented /\ ~panicked /\ UnitAxis(spec)) =>
        contract(attitude.forward) =
            Cross3(contract(attitude.up), contract(attitude.right))

C4_Witness ==
    /\ Updated
    /\ UnitAxis(spec)
    /\ lastOp.delta = DeltaMixed
    /\ calls >= 2
    /\ contract(attitude.forward) =
           Cross3(contract(attitude.up), contract(attitude.right))
    /\ contract(attitude.forward) #
           Cross3(contract(attitude.right), contract(attitude.up))

\* C5: a completed update_position_world(p) sets position to p, sets
\* translation_matrix to the translation by -p and view_matrix to
\* rotation_matrix * translation_matrix, and leaves forward, right, up, axis
\* and rotation_matrix as they were.
C5_PositionWorld ==
    Moved =>
        /\ attitude.position = lastOp.position
        /\ attitude.translation_matrix =
               FromAffineTranslation(V3Neg(lastOp.position))
        /\ attitude.view_matrix =
               MatMul(pre.rotation_matrix,
                      FromAffineTranslation(V3Neg(lastOp.position)))
        /\ attitude.forward = pre.forward
        /\ attitude.right = pre.right
        /\ attitude.up = pre.up
        /\ attitude.axis = pre.axis
        /\ attitude.rotation_matrix = pre.rotation_matrix

C5_Witness ==
    /\ Moved
    /\ oriented
    /\ calls >= 3
    /\ pre.position # V3Zero
    /\ pre.position # lastOp.position
    /\ attitude.position = lastOp.position
    /\ attitude.view_matrix # pre.view_matrix

\* C6: a completed update_attitude_eye(d) displaces the position along the
\* basis as it is after the same call:
\*   position = position_before + forward * (-d.z) + up * d.y + right * d.x.
\* On the canonical spec (origin, axis (0,1,0)) the first call with
\* delta_position (0,0,-1) and a yaw of 90 degrees gives right = (0,0,1) and a
\* position one unit from the origin along the new forward vector, which is
\* not the old forward vector (0,0,-1).
C6_MoveAlongRotatedBasis ==
    /\ Updated =>
           attitude.position =
               V3Add(V3Add(V3Add(pre.position,
                                 V3Scale(contract(attitude.forward),
                                         Neg(lastOp.delta.delta_position[3]))),
                           V3Scale(contract(attitude.up),
                                   lastOp.delta.delta_position[2])),
                     V3Scale(contract(attitude.right),
                             lastOp.delta.delta_position[1]))
    /\ (Updated /\ calls = 1 /\ spec = SpecCanonical /\ lastOp.delta = DeltaYaw90) =>
           /\ attitude.right = to_homogeneous(Vec3(0, 0, 1))
           /\ attitude.position = contract(attitude.forward)
           /\ NormSquared3(attitude.position) = One
           /\ attitude.position # contract(pre.forward)

C6_Witness ==
    /\ Updated
    /\ calls = 1
    /\ spec = SpecCanonical
    /\ lastOp.delta = DeltaYaw90
    /\ pre.forward = to_homogeneous(Vec3(0, 0, -1))
    /\ attitude.right = to_homogeneous(Vec3(0, 0, 1))
    /\ attitude.position = Vec3(1, 0, 0)

\* C7 as claimed: no sequence of calls on a Light built from a spec with an
\* orthonormal basis makes an unwrap of an inversion result panic.
C7_NeverPanics == ~panicked

\* C8: update_attitude_eye(d) replaces the axis quaternion by
\* q_roll * (q_pitch * (q_yaw * axis_before)), the three rotations taken about
\* the up, right and forward vectors as they were before the call.
C8_AxisComposition ==
    lastOp.op = "update_attitude_eye" =>
        LET d == lastOp.delta
            q_yaw == <<CosHalf(d.yaw)>> \o
                     V3Scale(UnitFromValue(contract(pre.up)), SinHalf(d.yaw))
            q_pitch == <<CosHalf(d.pitch)>> \o
                       V3Scale(UnitFromValue(contract(pre.right)), SinHalf(d.pitch))
            q_roll == <<CosHalf(d.roll)>> \o
                      V3Scale(UnitFromValue(contract(pre.forward)), SinHalf(d.roll))
        IN  attitude.axis = QuatMul(q_roll, QuatMul(q_pitch, QuatMul(q_yaw, pre.axis)))

C8_Witness ==
    /\ Updated
    /\ lastOp.delta = DeltaMixed
    /\ calls >= 2
    /\ attitude.axis # pre.axis
    /\ attitude.axis # RotatedAxis_RollFirst(pre, lastOp.delta)

\* C9 as claimed: in every reachable state the real part of the axis
\* quaternion is 0.
C9_AxisPure == attitude.axis[1] = Zero

\* C9 as amended: until the first update_attitude_eye (right after Light::new
\* and after any update_position_world calls) the axis quaternion has real
\* part 0 and the spec's axis as its vector part.
C9_AxisPureBeforeFirstUpdate ==
    ~oriented =>
        /\ attitude.axis[1] = Zero
        /\ QuatV(attitude.axis) = spec.axis

C9_Witness ==
    /\ ~oriented
    /\ Moved
    /\ calls >= 2
    /\ spec.axis # V3Zero
    /\ attitude.axis = QuatFromParts(Zero, spec.axis)

\* C10 as claimed: for a spec with an orthonormal basis and a unit axis, in
\* every reachable state, the one right after Light::new included,
\* rotation_matrix maps forward, right and up to (0,0,-1,0), (1,0,0,0) and
\* (0,1,0,0).
C10_RotationIsWorldToEye ==
    (~panicked /\ UnitAxis(spec)) =>
        /\ MatVec(attitude.rotation_matrix, attitude.forward) = to_homogeneous(ForwardEye)
        /\ MatVec(attitude.rotation_matrix, attitude.right) = to_homogeneous(RightEye)
        /\ MatVec(attitude.rotation_matrix, attitude.up) = to_homogeneous(UpEye)

====
